---- MODULE Spec2Model ----
(***************************************************************************)
(* Subscription billing layer: the stored procedures of the migrations     *)
(* (period calculator, billing text trigger, reconciler, access status     *)
(* resolver, cancel / reactivate) over the subscriptions table.            *)
(*                                                                         *)
(* Instants (timestamptz) are integers counting ticks since 1970-01-01     *)
(* 00:00 UTC, TicksPerDay ticks to a day.  SQL NULL is NullTs for an       *)
(* instant and NullText for a text value.                                  *)
(***************************************************************************)
EXTENDS Integers, Sequences, FiniteSets, TLC

VARIABLES subscriptions, now, ticks, last, lastWrite, supplied, calc,
          proc, base, rounds, http, page

vars == <<subscriptions, now, ticks, last, lastWrite, supplied, calc,
          proc, base, rounds, http, page>>

-----------------------------------------------------------------------------
(* Bounds of the model *)

TicksPerDay == 2
MaxTicks == 2

NullTs == 0 - 1
NullText == "NULL"

Users == {"u1"}

PlanTiers == {"trial", "monthly", "semiannual", "annual"}
Statuses == {"active", "cancelled", "past_due", "expired"}

-----------------------------------------------------------------------------
(* Calendar arithmetic of timestamptz (UTC): days <-> civil date *)

\* days since 1970-01-01 of a civil date; years are counted from March so
\* that the leap day is the last day of the year
DayOfEra(yoe, doy) == yoe * 365 + yoe \div 4 - yoe \div 100 + doy

DayOfMarchYear(mp, d) == (153 * mp + 2) \div 5 + d - 1

DaysFromMarchYear(yy, mp, d) ==
  (yy \div 400) * 146097 + DayOfEra(yy % 400, DayOfMarchYear(mp, d)) - 719468

DaysFromCivil(y, m, d) ==
  DaysFromMarchYear(IF m <= 2 THEN y - 1 ELSE y, (m + 9) % 12, d)

\* the civil date of a day number
YearOfEra(doe) ==
  (doe - doe \div 1460 + doe \div 36524 - doe \div 146096) \div 365

CivilOfMonth(yy, mp, d) ==
  [y |-> IF mp < 10 THEN yy ELSE yy + 1,
   m |-> IF mp < 10 THEN mp + 3 ELSE mp - 9,
   d |-> d]

CivilOfDayOfYear(yy, doy) ==
  CivilOfMonth(yy, (5 * doy + 2) \div 153,
               doy - (153 * ((5 * doy + 2) \div 153) + 2) \div 5 + 1)

CivilOfYearOfEra(era, doe, yoe) ==
  CivilOfDayOfYear(yoe + era * 400,
                   doe - (365 * yoe + yoe \div 4 - yoe \div 100))

CivilOfDayOfEra(era, doe) == CivilOfYearOfEra(era, doe, YearOfEra(doe))

CivilFromDays(z) ==
  CivilOfDayOfEra((z + 719468) \div 146097, (z + 719468) % 146097)

IsLeap(y) == (y % 4 = 0 /\ y % 100 # 0) \/ y % 400 = 0

DaysInMonth(y, m) ==
  IF m = 2 THEN (IF IsLeap(y) THEN 29 ELSE 28)
  ELSE IF m \in {4, 6, 9, 11} THEN 30 ELSE 31

Min(a, b) == IF a <= b THEN a ELSE b
Max(a, b) == IF a >= b THEN a ELSE b

DayOf(t) == t \div TicksPerDay
TimeOfDay(t) == t % TicksPerDay
Days(n) == n * TicksPerDay
At(y, m, d, tod) == Days(DaysFromCivil(y, m, d)) + tod

\* timestamptz + INTERVAL 'n months': the month field is advanced and the
\* day of month is clamped to the length of the target month
AddMonths(t, n) ==
  LET c     == CivilFromDays(DayOf(t))
      total == c.y * 12 + (c.m - 1) + n
      y2    == total \div 12
      m2    == (total % 12) + 1
      d2    == Min(c.d, DaysInMonth(y2, m2))
  IN  Days(DaysFromCivil(y2, m2, d2)) + TimeOfDay(t)

\* EXTRACT(DAY FROM interval) of a difference of two instants: whole days,
\* truncated towards zero
ExtractDays(iv) ==
  IF iv >= 0 THEN iv \div TicksPerDay ELSE 0 - ((0 - iv) \div TicksPerDay)

-----------------------------------------------------------------------------
(* Period Calculator *)

\* variant: a month is taken to be 30 days
calculate_subscription_period_end_30_day_month(plan_type, period_start) ==
  CASE plan_type = "trial"      -> period_start + Days(30)
    [] plan_type = "monthly"    -> period_start + Days(30)
    [] plan_type = "semiannual" -> AddMonths(period_start, 6)
    [] plan_type = "annual"     -> AddMonths(period_start, 12)
    [] OTHER                    -> period_start + Days(30)

calculate_subscription_period_end(plan_type, period_start) ==
  CASE plan_type = "trial"      -> period_start + Days(30)
    [] plan_type = "monthly"    -> AddMonths(period_start, 1)
    [] plan_type = "semiannual" -> AddMonths(period_start, 6)
    [] plan_type = "annual"     -> AddMonths(period_start, 12)
    [] OTHER                    -> period_start + Days(30)

-----------------------------------------------------------------------------
(* Billing Text Formatter and the before-insert/update trigger *)

\* to_char(ts, 'Mon DD, YYYY'): the civil date, the time of day is dropped
to_char(t) == CivilFromDays(DayOf(t))

generate_billing_period_text(period_start, period_end, plan_type, v_now) ==
  LET actual_days == ExtractDays(period_end - period_start)
      is_expired  == period_end <= v_now
      duration_text ==
        CASE plan_type = "trial"      -> <<actual_days, " day trial">>
          [] plan_type = "monthly"    -> <<"1 month">>
          [] plan_type = "semiannual" -> <<"6 months">>
          [] plan_type = "annual"     -> <<"1 year">>
          [] OTHER                    -> <<actual_days, " days">>
  IN  [status_prefix   |-> IF is_expired THEN "Expired: " ELSE "",
       start_formatted |-> to_char(period_start),
       end_formatted   |-> to_char(period_end),
       duration_text   |-> duration_text]

tolerance_days == 2

validate_billing_period_accuracy(period_start, period_end, plan_type) ==
  LET expected_end  == calculate_subscription_period_end(plan_type, period_start)
      actual_days   == ExtractDays(period_end - period_start)
      expected_days == ExtractDays(expected_end - period_start)
      diff          == actual_days - expected_days
  IN  (IF diff >= 0 THEN diff ELSE 0 - diff) <= tolerance_days

\* variant: the trigger refreshes the text only
update_billing_period_text_text_only(new, v_now) ==
  [new EXCEPT
     !.billing_period_text =
        generate_billing_period_text(new.current_period_start,
                                     new.current_period_end, new.plan_type, v_now)]

\* BEFORE INSERT OR UPDATE ... FOR EACH ROW
update_billing_period_text(new, v_now) ==
  [new EXCEPT
     !.billing_period_text =
        generate_billing_period_text(new.current_period_start,
                                     new.current_period_end, new.plan_type, v_now),
     !.billing_period_accurate =
        validate_billing_period_accuracy(new.current_period_start,
                                         new.current_period_end, new.plan_type)]

-----------------------------------------------------------------------------
(* The subscriptions table: a sequence of rows, id = position *)

RowsOf(tbl, u) == {i \in 1 .. Len(tbl) : tbl[i].user_id = u}

\* SELECT * INTO r FROM subscriptions WHERE user_id = u  (first row found)
SelectByUser(tbl, u) ==
  LET ids == RowsOf(tbl, u)
  IN  CHOOSE i \in ids : \A j \in ids : i <= j

\* ... ORDER BY created_at DESC LIMIT 1
SelectLatest(tbl, u) ==
  LET ids == RowsOf(tbl, u)
  IN  CHOOSE i \in ids :
        \A j \in ids : \/ tbl[i].created_at > tbl[j].created_at
                       \/ (tbl[i].created_at = tbl[j].created_at /\ i >= j)

NoArgs == [plan_type |-> NullText, status |-> NullText,
           stripe_subscription_id |-> NullText, stripe_customer_id |-> NullText,
           period_start |-> NullTs, period_end |-> NullTs]

NoResult == [found |-> FALSE]

\* the operation that ran at the current instant, if any
NoOp == [op |-> "none", user |-> NullText, outcome |-> "none", result |-> NoResult]

\* the latest successful write to a user's row
NoWrite == [op |-> "none", args |-> NoArgs, repeat |-> FALSE]

Coalesce(a, b, null) == IF a # null THEN a ELSE b

-----------------------------------------------------------------------------
(* Inputs *)

T0 == At(2024, 1, 31, 0)

\* provider identifiers passed together by a caller (NullText: not passed)
ProviderIds ==
  {<<NullText, NullText>>, <<"sub_A", "cus_A">>, <<"sub_B", NullText>>}

\* period bounds passed together by a caller (NullTs: not passed)
PeriodBounds ==
  {<<NullTs, NullTs>>, <<T0 + Days(1), NullTs>>, <<T0 + Days(1), T0 + Days(7)>>}

\* supplied bounds that do not span a period
EmptyPeriodBounds == {<<T0 + Days(1), T0 + Days(1)>>}

TickSteps == {1, Days(7)}

ReconcileStatuses == {"active", "cancelled", "past_due"}

ReconcilePlans == {"trial", "monthly"}

CallArgs(p, s, ids, pb) ==
  [plan_type |-> p, status |-> s,
   stripe_subscription_id |-> ids[1], stripe_customer_id |-> ids[2],
   period_start |-> pb[1], period_end |-> pb[2]]

\* the calls of the reconciler: activations carry any of the provider
\* identifiers, the other calls carry none
ReconcileArgs ==
  {CallArgs(p, "active", ids, pb) :
     p \in ReconcilePlans, ids \in ProviderIds, pb \in PeriodBounds}
    \cup {CallArgs(p, s, <<NullText, NullText>>, pb) :
            p \in ReconcilePlans, s \in ReconcileStatuses \ {"active"},
            pb \in PeriodBounds}
    \cup {CallArgs("trial", "active", <<NullText, NullText>>, pb) :
            pb \in EmptyPeriodBounds}

-----------------------------------------------------------------------------
(* Access Status Resolver *)

\* variant: a 14 day trial window
trial_defaults_14_days(v_now) ==
  [found |-> FALSE,
   subscription_id |-> 0,
   plan_type |-> "trial",
   status |-> "active",
   stripe_subscription_id |-> NullText,
   stripe_customer_id |-> NullText,
   current_period_start |-> v_now,
   current_period_end |-> v_now + Days(14),
   has_access |-> TRUE,
   days_remaining |-> 14,
   is_expired |-> FALSE,
   is_cancelled |-> FALSE,
   billing_period_text |-> [literal |-> "Free Trial - 30 days"],
   created_at |-> v_now,
   updated_at |-> v_now]

\* the synthetic trial status returned when the user has no row
trial_defaults(v_now) ==
  [found |-> FALSE,
   subscription_id |-> 0,
   plan_type |-> "trial",
   status |-> "active",
   stripe_subscription_id |-> NullText,
   stripe_customer_id |-> NullText,
   current_period_start |-> v_now,
   current_period_end |-> v_now + Days(30),
   has_access |-> TRUE,
   days_remaining |-> 30,
   is_expired |-> FALSE,
   is_cancelled |-> FALSE,
   billing_period_text |-> [literal |-> "Free Trial - 30 days"],
   created_at |-> v_now,
   updated_at |-> v_now]

v_is_expired(current_period_end, v_now) == current_period_end <= v_now

\* variant: the status is compared with the provider's spelling
v_is_cancelled_provider_spelling(status) == status = "canceled"

v_is_cancelled(status) == status = "cancelled"

\* variant: the day count is not clamped at 0
v_days_remaining_unclamped(current_period_end, v_now) ==
  ExtractDays(current_period_end - v_now)

\* GREATEST(0, EXTRACT(days FROM current_period_end - v_now)::integer)
v_days_remaining(current_period_end, v_now) ==
  Max(0, ExtractDays(current_period_end - v_now))

\* variant: the cancelled-but-unexpired clause is dropped
v_has_access_active_only(status, is_cancelled, is_expired) ==
  status = "active"

\* variant: a cancelled row has access whether or not it has expired
v_has_access_ignores_expiry(status, is_cancelled, is_expired) ==
  (status = "active") \/ is_cancelled

\* Has access if: active OR (cancelled but not expired)
v_has_access(status, is_cancelled, is_expired) ==
  (status = "active") \/ (is_cancelled /\ ~is_expired)

v_billing_period_text(v_subscription) ==
  [status_prefix   |-> "",
   start_formatted |-> to_char(v_subscription.current_period_start),
   end_formatted   |-> to_char(v_subscription.current_period_end),
   duration_text   |->
     CASE v_subscription.plan_type = "trial"      -> <<"30 days">>
       [] v_subscription.plan_type = "monthly"    -> <<"1 month">>
       [] v_subscription.plan_type = "semiannual" -> <<"6 months">>
       [] v_subscription.plan_type = "annual"     -> <<"1 year">>
       [] OTHER                                   -> <<>>]

get_subscription_access_status(tbl, p_user_id, v_now) ==
  IF RowsOf(tbl, p_user_id) = {}
  THEN trial_defaults(v_now)
  ELSE
    LET v_subscription == tbl[SelectLatest(tbl, p_user_id)]
        is_expired     == v_is_expired(v_subscription.current_period_end, v_now)
        is_cancelled   == v_is_cancelled(v_subscription.status)
    IN [found |-> TRUE,
        subscription_id |-> v_subscription.id,
        plan_type |-> v_subscription.plan_type,
        status |-> v_subscription.status,
        stripe_subscription_id |-> v_subscription.stripe_subscription_id,
        stripe_customer_id |-> v_subscription.stripe_customer_id,
        current_period_start |-> v_subscription.current_period_start,
        current_period_end |-> v_subscription.current_period_end,
        has_access |-> v_has_access(v_subscription.status, is_cancelled, is_expired),
        days_remaining |-> v_days_remaining(v_subscription.current_period_end, v_now),
        is_expired |-> is_expired,
        is_cancelled |-> is_cancelled,
        billing_period_text |-> v_billing_period_text(v_subscription),
        created_at |-> v_subscription.created_at,
        updated_at |-> v_subscription.updated_at]

\* variant: a user without a row is given a stored trial row on first read
access_status_effect_creates_trial(tbl, p_user_id, v_now) ==
  IF RowsOf(tbl, p_user_id) = {}
  THEN Append(tbl, update_billing_period_text(
                [id |-> Len(tbl) + 1, user_id |-> p_user_id,
                 plan_type |-> "trial", status |-> "active",
                 stripe_subscription_id |-> NullText,
                 stripe_customer_id |-> NullText,
                 current_period_start |-> v_now,
                 current_period_end |-> v_now + Days(30),
                 billing_period_text |-> [literal |-> NullText],
                 billing_period_accurate |-> FALSE,
                 created_at |-> v_now, updated_at |-> v_now], v_now))
  ELSE tbl

\* the table after a call of get_subscription_access_status: its body is a
\* SELECT ... INTO and assignments to local variables, without any INSERT,
\* UPDATE or DELETE statement
access_status_effect(tbl, p_user_id, v_now) == tbl

-----------------------------------------------------------------------------
(* Writers *)

\* UPDATE subscriptions SET ... WHERE user_id = u, the row trigger included;
\* set[i] is row i with the SET list applied
UpdateWhereUser(tbl, u, set, v_now) ==
  [i \in 1 .. Len(tbl) |->
     IF tbl[i].user_id = u
     THEN update_billing_period_text(set[i], v_now)
     ELSE tbl[i]]

\* variant: the supplied period start is ignored
calculated_period_start_always_now(a, v_now) == v_now

calculated_period_start(a, v_now) == Coalesce(a.period_start, v_now, NullTs)

\* variant: the supplied period end is ignored
calculated_period_end_always_computed(a, v_now) ==
  calculate_subscription_period_end(a.plan_type, calculated_period_start(a, v_now))

calculated_period_end(a, v_now) ==
  IF a.period_end = NullTs
  THEN calculate_subscription_period_end(a.plan_type, calculated_period_start(a, v_now))
  ELSE a.period_end

\* variant: the provider identifiers are overwritten even by NULL
webhook_update_set_no_coalesce(r, a, v_now) ==
  [r EXCEPT
     !.plan_type = a.plan_type,
     !.status = a.status,
     !.stripe_subscription_id = a.stripe_subscription_id,
     !.stripe_customer_id = a.stripe_customer_id,
     !.current_period_start = calculated_period_start(a, v_now),
     !.current_period_end = calculated_period_end(a, v_now),
     !.updated_at = v_now]

\* the SET list of the UPDATE branch
webhook_update_set(r, a, v_now) ==
  [r EXCEPT
     !.plan_type = a.plan_type,
     !.status = a.status,
     !.stripe_subscription_id =
        Coalesce(a.stripe_subscription_id, r.stripe_subscription_id, NullText),
     !.stripe_customer_id =
        Coalesce(a.stripe_customer_id, r.stripe_customer_id, NullText),
     !.current_period_start = calculated_period_start(a, v_now),
     !.current_period_end = calculated_period_end(a, v_now),
     !.updated_at = v_now]

\* the VALUES list of the INSERT branch; id, created_at and updated_at take
\* their column defaults
webhook_insert_values(tbl, p_user_id, a, v_now) ==
  [id |-> Len(tbl) + 1,
   user_id |-> p_user_id,
   plan_type |-> a.plan_type,
   status |-> a.status,
   stripe_subscription_id |-> a.stripe_subscription_id,
   stripe_customer_id |-> a.stripe_customer_id,
   current_period_start |-> calculated_period_start(a, v_now),
   current_period_end |-> calculated_period_end(a, v_now),
   billing_period_text |-> [literal |-> NullText],
   billing_period_accurate |-> FALSE,
   created_at |-> v_now,
   updated_at |-> v_now]

\* UPDATE subscriptions SET ... WHERE user_id = p_user_id
webhook_update(tbl, p_user_id, a, v_now) ==
  UpdateWhereUser(tbl, p_user_id,
                  [i \in 1 .. Len(tbl) |-> webhook_update_set(tbl[i], a, v_now)],
                  v_now)

\* INSERT INTO subscriptions ... VALUES ...
webhook_insert(tbl, p_user_id, a, v_now) ==
  Append(tbl, update_billing_period_text(
                webhook_insert_values(tbl, p_user_id, a, v_now), v_now))

\* variant: the procedure inserts without looking for an existing row
handle_subscription_webhook_always_inserts(tbl, p_user_id, a, v_now) ==
  webhook_insert(tbl, p_user_id, a, v_now)

handle_subscription_webhook(tbl, p_user_id, a, v_now) ==
  IF RowsOf(tbl, p_user_id) # {}
  THEN webhook_update(tbl, p_user_id, a, v_now)
  ELSE webhook_insert(tbl, p_user_id, a, v_now)

\* variant: a past_due subscription can be cancelled too
cancel_outcome_allows_past_due(tbl, p_user_id) ==
  IF RowsOf(tbl, p_user_id) = {} THEN "No subscription found for user"
  ELSE IF tbl[SelectByUser(tbl, p_user_id)].status \notin {"active", "past_due"}
       THEN "Subscription is not active"
       ELSE "ok"

\* variant: a user without a row is taken to be on the trial and active
cancel_outcome_trial_is_active(tbl, p_user_id) ==
  IF RowsOf(tbl, p_user_id) = {} THEN "ok"
  ELSE IF tbl[SelectByUser(tbl, p_user_id)].status # "active"
       THEN "Subscription is not active"
       ELSE "ok"

\* outcome of cancel_subscription_safe: the exception raised, or "ok"
cancel_outcome(tbl, p_user_id) ==
  IF RowsOf(tbl, p_user_id) = {} THEN "No subscription found for user"
  ELSE IF tbl[SelectByUser(tbl, p_user_id)].status # "active"
       THEN "Subscription is not active"
       ELSE "ok"

\* variant: the row is marked expired instead of cancelled
cancel_update_set_expired(r, v_now) ==
  [r EXCEPT !.status = "expired", !.updated_at = v_now]

cancel_update_set(r, v_now) ==
  [r EXCEPT !.status = "cancelled", !.updated_at = v_now]

\* UPDATE subscriptions SET status = 'cancelled' ... WHERE user_id = p_user_id
cancel_update(tbl, p_user_id, v_now) ==
  UpdateWhereUser(tbl, p_user_id,
                  [i \in 1 .. Len(tbl) |-> cancel_update_set(tbl[i], v_now)], v_now)

cancel_subscription_safe(tbl, p_user_id, v_now) ==
  IF cancel_outcome(tbl, p_user_id) = "ok"
  THEN cancel_update(tbl, p_user_id, v_now)
  ELSE tbl

\* variant: a subscription ending exactly now can still be reactivated
reactivate_outcome_strict_less(tbl, p_user_id, v_now) ==
  IF RowsOf(tbl, p_user_id) = {} THEN "No subscription found for user"
  ELSE LET v_subscription == tbl[SelectByUser(tbl, p_user_id)]
       IN  IF v_subscription.status # "cancelled"
           THEN "Subscription is not cancelled"
           ELSE IF v_subscription.current_period_end < v_now
                THEN "Subscription has already expired"
                ELSE "ok"

\* outcome of reactivate_subscription: the exception raised, or "ok"
reactivate_outcome(tbl, p_user_id, v_now) ==
  IF RowsOf(tbl, p_user_id) = {} THEN "No subscription found for user"
  ELSE LET v_subscription == tbl[SelectByUser(tbl, p_user_id)]
       IN  IF v_subscription.status # "cancelled"
           THEN "Subscription is not cancelled"
           ELSE IF v_subscription.current_period_end <= v_now
                THEN "Subscription has already expired"
                ELSE "ok"

reactivate_update_set(r, v_now) ==
  [r EXCEPT !.status = "active", !.updated_at = v_now]

\* UPDATE subscriptions SET status = 'active' ... WHERE user_id = p_user_id
reactivate_update(tbl, p_user_id, v_now) ==
  UpdateWhereUser(tbl, p_user_id,
                  [i \in 1 .. Len(tbl) |-> reactivate_update_set(tbl[i], v_now)], v_now)

reactivate_subscription(tbl, p_user_id, v_now) ==
  IF reactivate_outcome(tbl, p_user_id, v_now) = "ok"
  THEN reactivate_update(tbl, p_user_id, v_now)
  ELSE tbl

\* the rows selected by the loop of fix_existing_billing_periods
\* (billing_period_accurate is never NULL once the trigger has run)
fix_selected(r) == r.billing_period_accurate = FALSE

\* variant: the period end is left as it is
fix_update_set_keeps_end(r, v_now) == [r EXCEPT !.updated_at = v_now]

fix_update_set(r, v_now) ==
  [r EXCEPT
     !.current_period_end =
        calculate_subscription_period_end(r.plan_type, r.current_period_start),
     !.updated_at = v_now]

\* FOR sub_record IN SELECT ... LOOP UPDATE ... WHERE id = sub_record.id
fix_existing_billing_periods(tbl, v_now) ==
  [i \in 1 .. Len(tbl) |->
     IF fix_selected(tbl[i])
     THEN update_billing_period_text(fix_update_set(tbl[i], v_now), v_now)
     ELSE tbl[i]]

-----------------------------------------------------------------------------
(* State machine *)

\* the two sessions that call the stored procedures concurrently
Procs == {"p1", "p2"}

\* a session: the procedure it runs, the statement it is about to execute,
\* and whether its SELECT ... INTO found a row
Idle == [op |-> "none", pc |-> "idle", user |-> NullText, args |-> NoArgs,
         found |-> FALSE, outcome |-> "none"]

\* the last HTTP exchange of an edge function
NoExchange == [endpoint |-> "none"]

\* the billing page as it is mounted: the useState initial values;
\* fetched_at is the instant of the last fetch
InitialPage ==
  [subscriptionData |-> [loaded |-> FALSE],
   error |-> "",
   showCancelModal |-> FALSE, showReactivateModal |-> FALSE,
   cancelLoading |-> FALSE, reactivateLoading |-> FALSE,
   selectedPaymentMethod |-> "",
   fetched_at |-> NullTs]

Done(op, u, outcome, res) ==
  [op |-> op, user |-> u, outcome |-> outcome, result |-> res]

Init ==
  /\ subscriptions = <<>>
  /\ now = T0
  /\ ticks = 0
  /\ last = NoOp
  /\ lastWrite = [u \in Users |-> NoWrite]
  /\ supplied = [u \in Users |->
                   [stripe_subscription_id |-> NullText,
                    stripe_customer_id |-> NullText]]
  /\ calc = [plan_type |-> NullText, period_start |-> NullTs, period_end |-> NullTs]
  /\ proc = [p \in Procs |-> Idle]
  /\ base = <<>>
  /\ rounds = 0
  /\ http = NoExchange
  /\ page = InitialPage

Reconcile(u, a) ==
  /\ subscriptions' = handle_subscription_webhook(subscriptions, u, a, now)
  /\ last' = Done("reconcile", u, "ok", NoResult)
  /\ lastWrite' = [lastWrite EXCEPT ![u] =
        [op |-> "reconcile", args |-> a,
         repeat |-> (lastWrite[u].op = "reconcile" /\ lastWrite[u].args = a)]]
  /\ supplied' = [supplied EXCEPT
        ![u].stripe_subscription_id =
           IF a.stripe_subscription_id # NullText THEN a.stripe_subscription_id ELSE @,
        ![u].stripe_customer_id =
           IF a.stripe_customer_id # NullText THEN a.stripe_customer_id ELSE @]
  /\ UNCHANGED <<now, ticks, calc, proc, base, rounds, http, page>>

Cancel(u) ==
  LET outcome == cancel_outcome(subscriptions, u)
  IN  /\ subscriptions' = cancel_subscription_safe(subscriptions, u, now)
      /\ last' = Done("cancel", u, outcome, NoResult)
      /\ lastWrite' = IF outcome = "ok"
                      THEN [lastWrite EXCEPT ![u] =
                              [op |-> "cancel", args |-> NoArgs, repeat |-> FALSE]]
                      ELSE lastWrite
      /\ UNCHANGED <<now, ticks, supplied, calc, proc, base, rounds, http, page>>

Reactivate(u) ==
  LET outcome == reactivate_outcome(subscriptions, u, now)
  IN  /\ subscriptions' = reactivate_subscription(subscriptions, u, now)
      /\ last' = Done("reactivate", u, outcome, NoResult)
      /\ lastWrite' = IF outcome = "ok"
                      THEN [lastWrite EXCEPT ![u] =
                              [op |-> "reactivate", args |-> NoArgs, repeat |-> FALSE]]
                      ELSE lastWrite
      /\ UNCHANGED <<now, ticks, supplied, calc, proc, base, rounds, http, page>>

GetAccessStatus(u) ==
  /\ last' = Done("getAccessStatus", u, "ok",
                  get_subscription_access_status(subscriptions, u, now))
  /\ subscriptions' = access_status_effect(subscriptions, u, now)
  /\ UNCHANGED <<now, ticks, lastWrite, supplied, calc, proc, base, rounds, http, page>>

FixExisting ==
  /\ subscriptions' = fix_existing_billing_periods(subscriptions, now)
  /\ last' = Done("fix", NullText, "ok", NoResult)
  /\ lastWrite' = [u \in Users |->
        IF \E i \in RowsOf(subscriptions, u) : fix_selected(subscriptions[i])
        THEN [op |-> "fix", args |-> NoArgs, repeat |-> FALSE]
        ELSE lastWrite[u]]
  /\ UNCHANGED <<now, ticks, supplied, calc, proc, base, rounds, http, page>>

\* time passes
Tick ==
  /\ ticks < MaxTicks
  /\ \E d \in TickSteps : now' = now + d
  /\ ticks' = ticks + 1
  /\ last' = NoOp
  /\ UNCHANGED <<subscriptions, lastWrite, supplied, calc, proc, base, rounds, http, page>>

Next ==
  \/ \E u \in Users : \E a \in ReconcileArgs : Reconcile(u, a)
  \/ \E u \in Users : Cancel(u)
  \/ \E u \in Users : Reactivate(u)
  \/ \E u \in Users : GetAccessStatus(u)
  \/ FixExisting
  \/ Tick

Spec == Init /\ [][Next]_vars

-----------------------------------------------------------------------------
(* The Period Calculator on its own: it is applied to a plan tier and a
   period start drawn from CalcPlans and CalcStarts *)

CalcSpanDays == 40

CalcPlans == PlanTiers \cup {"unknown"}

CalcStarts ==
  {At(2024, 1, 25, 0) + k : k \in 0 .. (Days(CalcSpanDays) - 1)}
    \cup {At(2023, 1, 31, 0), At(2023, 8, 31, 1), At(2023, 12, 31, 0),
          At(2024, 10, 31, 1), At(2025, 2, 28, 0)}

CalcApply ==
  /\ \E p \in CalcPlans : \E t \in CalcStarts :
        calc' = [plan_type |-> p, period_start |-> t,
                 period_end |-> calculate_subscription_period_end(p, t)]
  /\ UNCHANGED <<subscriptions, now, ticks, last, lastWrite, supplied, proc, base, rounds, http, page>>

SpecCalc == Init /\ [][CalcApply]_vars

-----------------------------------------------------------------------------
(* Two sessions calling the stored procedures at the same time.  Each call
   is one transaction at the default isolation level (read committed): its
   SELECT ... INTO reads the committed table without locking the row, and
   its UPDATE or INSERT is a later statement that sees the table as it is
   then; the transaction commits when the procedure returns, right after
   the write. *)

MaxRounds == 2

ConcUser == "u1"

\* the calls a session can make
ConcCalls ==
  {[op |-> "cancel", args |-> NoArgs],
   [op |-> "reactivate", args |-> NoArgs],
   [op |-> "reconcile",
    args |-> [plan_type |-> "monthly", status |-> "active",
              stripe_subscription_id |-> "sub_A", stripe_customer_id |-> "cus_A",
              period_start |-> T0 + Days(1), period_end |-> NullTs]],
   [op |-> "reconcile",
    args |-> [plan_type |-> "trial", status |-> "cancelled",
              stripe_subscription_id |-> NullText, stripe_customer_id |-> NullText,
              period_start |-> T0 + Days(1), period_end |-> T0 + Days(7)]]}

Calling(c) ==
  [op |-> c.op, pc |-> "select", user |-> ConcUser, args |-> c.args,
   found |-> FALSE, outcome |-> "none"]

\* both sessions issue their call
StartRace ==
  /\ rounds < MaxRounds
  /\ \A p \in Procs : proc[p].pc = "idle"
  /\ \E c1 \in ConcCalls : \E c2 \in ConcCalls :
        proc' = [p \in Procs |-> IF p = "p1" THEN Calling(c1) ELSE Calling(c2)]
  /\ base' = subscriptions
  /\ rounds' = rounds + 1
  /\ UNCHANGED <<subscriptions, now, ticks, last, lastWrite, supplied, calc, http, page>>

\* the exception a lifecycle procedure raises after its SELECT, or "ok"
select_outcome(op, tbl, u, v_now) ==
  CASE op = "cancel"     -> cancel_outcome(tbl, u)
    [] op = "reactivate" -> reactivate_outcome(tbl, u, v_now)
    [] OTHER             -> "ok"

\* SELECT * INTO ... FROM subscriptions WHERE user_id = p_user_id, and the
\* IF ... RAISE EXCEPTION checks that follow it
SelectInto(p) ==
  /\ proc[p].pc = "select"
  /\ LET outcome == select_outcome(proc[p].op, subscriptions, proc[p].user, now)
     IN  proc' = [proc EXCEPT
                    ![p].found = RowsOf(subscriptions, proc[p].user) # {},
                    ![p].pc = IF outcome = "ok" THEN "write" ELSE "done",
                    ![p].outcome = IF outcome = "ok" THEN "none" ELSE outcome]
  /\ UNCHANGED <<subscriptions, now, ticks, last, lastWrite, supplied, calc,
                 base, rounds, http, page>>

\* the UPDATE or INSERT statement of the procedure, on the table as it is now
write_statement(q, tbl, v_now) ==
  CASE q.op = "cancel"     -> cancel_update(tbl, q.user, v_now)
    [] q.op = "reactivate" -> reactivate_update(tbl, q.user, v_now)
    [] OTHER               -> IF q.found
                              THEN webhook_update(tbl, q.user, q.args, v_now)
                              ELSE webhook_insert(tbl, q.user, q.args, v_now)

Write(p) ==
  /\ proc[p].pc = "write"
  /\ subscriptions' = write_statement(proc[p], subscriptions, now)
  /\ proc' = [proc EXCEPT ![p].pc = "done", ![p].outcome = "ok"]
  /\ UNCHANGED <<now, ticks, last, lastWrite, supplied, calc, base, rounds, http, page>>

\* both calls have returned
EndRace ==
  /\ \A p \in Procs : proc[p].pc = "done"
  /\ proc' = [p \in Procs |-> Idle]
  /\ UNCHANGED <<subscriptions, now, ticks, last, lastWrite, supplied, calc,
                 base, rounds, http, page>>

NextConc ==
  \/ StartRace
  \/ \E p \in Procs : SelectInto(p)
  \/ \E p \in Procs : Write(p)
  \/ EndRace

SpecConc == Init /\ [][NextConc]_vars

-----------------------------------------------------------------------------
(* The webhook endpoint (stripe-webhook) *)

\* the provider-reported current period of a subscription object
ProviderPeriodStart == T0
ProviderPeriodEnd == T0 + Days(14)

\* an event as the handler reads it: the type, the metadata and fields of
\* event.data.object and, for invoice events, of the subscription that
\* stripe.subscriptions.retrieve returns (NullText: absent)
BaseEvent ==
  [type |-> "checkout.session.completed",
   user_id |-> "u1", plan_type |-> "monthly", payment_status |-> "paid",
   subscription |-> "sub_A", customer |-> "cus_A",
   sub_status |-> "active", cancel_at_period_end |-> FALSE,
   current_period_start |-> ProviderPeriodStart,
   current_period_end |-> ProviderPeriodEnd]

Ev(t) == [BaseEvent EXCEPT !.type = t]

NoUser(e) == [e EXCEPT !.user_id = NullText]
NoPlan(e) == [e EXCEPT !.plan_type = NullText]
NoSubscription(e) == [e EXCEPT !.subscription = NullText]

HookEvents ==
  LET co == Ev("checkout.session.completed")
      pi == Ev("payment_intent.succeeded")
      ps == Ev("invoice.payment_succeeded")
      pf == Ev("invoice.payment_failed")
      su == Ev("customer.subscription.updated")
      sd == Ev("customer.subscription.deleted")
  IN  {co, NoUser(co), NoPlan(co), NoSubscription(co),
       [co EXCEPT !.payment_status = "unpaid"],
       pi, NoUser(pi), NoPlan(pi),
       ps, NoUser(ps), NoPlan(ps), NoSubscription(ps),
       [ps EXCEPT !.sub_status = "past_due"],
       pf, NoUser(pf), NoSubscription(pf),
       su, NoUser(su),
       [su EXCEPT !.sub_status = "past_due", !.cancel_at_period_end = TRUE],
       [su EXCEPT !.cancel_at_period_end = TRUE],
       [su EXCEPT !.sub_status = "canceled"],
       [su EXCEPT !.sub_status = "unpaid"],
       sd, NoUser(sd),
       Ev("customer.created")}

\* the stripe-signature header: absent, not matching the secret, matching
Signatures == {"missing", "bad", "good"}

\* a request: requests that do not reach the switch are drawn with two
\* events only
HookRequests ==
  [signature : {"good"}, secret : {TRUE}, event : HookEvents]
    \cup [signature : Signatures, secret : BOOLEAN,
          event : {Ev("checkout.session.completed"),
                   Ev("customer.subscription.deleted")}]

\* variant: the event is constructed without checking the signature
hook_gate_unverified(signature, secret) ==
  IF signature = "missing" THEN 400
  ELSE IF ~secret THEN 500
  ELSE 0

\* variant: an unconfigured secret is treated as a signature failure
hook_gate_secret_as_400(signature, secret) ==
  IF signature = "missing" THEN 400
  ELSE IF ~secret THEN 400
  ELSE IF signature # "good" THEN 400
  ELSE 0

\* the checks before the switch: the status of the early response, or 0 when
\* the event has been constructed (constructEventAsync throws on a signature
\* that does not verify, and the catch answers 400)
hook_gate(signature, secret) ==
  IF signature = "missing" THEN 400
  ELSE IF ~secret THEN 500
  ELSE IF signature # "good" THEN 400
  ELSE 0

\* variant: a paid invoice always reconciles as active
invoice_status_always_active(sub_status) == "active"

\* p_status of invoice.payment_succeeded
invoice_status(sub_status) ==
  IF sub_status = "active" THEN "active" ELSE "past_due"

\* variant: the cancellation flag is looked at before the provider status
dbStatus_cancel_first(e) ==
  IF e.cancel_at_period_end \/ e.sub_status = "canceled" THEN "cancelled"
  ELSE IF e.sub_status = "past_due" THEN "past_due"
  ELSE "active"

\* dbStatus of customer.subscription.updated
dbStatus(e) ==
  IF e.sub_status = "past_due" THEN "past_due"
  ELSE IF e.cancel_at_period_end \/ e.sub_status = "canceled" THEN "cancelled"
  ELSE "active"

\* subscription.metadata.plan_type || 'monthly'
plan_or_monthly(e) == IF e.plan_type # NullText THEN e.plan_type ELSE "monthly"

\* the arguments of an rpc call with the provider-reported period
provider_period_args(e, status) ==
  [plan_type |-> plan_or_monthly(e), status |-> status,
   stripe_subscription_id |-> e.subscription,
   stripe_customer_id |-> e.customer,
   period_start |-> e.current_period_start,
   period_end |-> e.current_period_end]

\* variant: the payment status of the session is not looked at
checkout_guard_ignores_payment_status(e) ==
  e.user_id # NullText /\ e.plan_type # NullText

\* session.metadata?.user_id && session.metadata?.plan_type &&
\* session.payment_status === 'paid'
checkout_guard(e) ==
  e.user_id # NullText /\ e.plan_type # NullText /\ e.payment_status = "paid"

\* the rpc('handle_subscription_webhook', ...) calls the switch makes for an
\* event: none, or one with these arguments; retrieved tells whether
\* stripe.subscriptions.retrieve returned (invoice events)
hook_calls(e, retrieved, v_now) ==
  CASE e.type = "checkout.session.completed" ->
         IF checkout_guard(e)
         THEN <<[plan_type |-> e.plan_type, status |-> "active",
                 stripe_subscription_id |-> e.subscription,
                 stripe_customer_id |-> e.customer,
                 period_start |-> v_now, period_end |-> NullTs]>>
         ELSE <<>>
    [] e.type = "payment_intent.succeeded" ->
         IF e.user_id # NullText /\ e.plan_type # NullText
         THEN <<[plan_type |-> e.plan_type, status |-> "active",
                 stripe_subscription_id |-> NullText,
                 stripe_customer_id |-> e.customer,
                 period_start |-> v_now, period_end |-> NullTs]>>
         ELSE <<>>
    [] e.type = "invoice.payment_succeeded" ->
         IF e.subscription # NullText /\ retrieved /\ e.user_id # NullText
         THEN <<provider_period_args(e, invoice_status(e.sub_status))>>
         ELSE <<>>
    [] e.type = "invoice.payment_failed" ->
         IF e.subscription # NullText /\ retrieved /\ e.user_id # NullText
         THEN <<provider_period_args(e, "past_due")>>
         ELSE <<>>
    [] e.type = "customer.subscription.updated" ->
         IF e.user_id # NullText
         THEN <<provider_period_args(e, dbStatus(e))>>
         ELSE <<>>
    [] e.type = "customer.subscription.deleted" ->
         IF e.user_id # NullText
         THEN <<provider_period_args(e, "cancelled")>>
         ELSE <<>>
    [] OTHER -> <<>>

\* the cases that throw the rpc error to the outer catch; the others log it
hook_throws(e) ==
  e.type \in {"checkout.session.completed", "payment_intent.succeeded"}

\* the event makes the handler call stripe.subscriptions.retrieve
hook_retrieves(e) ==
  /\ e.type \in {"invoice.payment_succeeded", "invoice.payment_failed"}
  /\ e.subscription # NullText

\* the response status once the event has been constructed
hook_status(e, failed) == IF failed /\ hook_throws(e) THEN 400 ELSE 200

\* the table after the rpc calls; a call that returns an error wrote nothing
Reconciled(tbl, calls, failed, v_now) ==
  IF calls = <<>> \/ failed THEN tbl
  ELSE handle_subscription_webhook(tbl, "u1", calls[1], v_now)

\* whether a call to the provider returns, when the handler makes it
Outcomes(called) == IF called THEN BOOLEAN ELSE {TRUE}

\* whether an rpc call returns an error, when the handler makes it
Failures(called) == IF called THEN BOOLEAN ELSE {FALSE}

\* one POST to the webhook endpoint, handled to its response
Webhook(req) ==
  \E retrieved \in Outcomes(hook_gate(req.signature, req.secret) = 0
                             /\ hook_retrieves(req.event)) :
  \E error \in Failures(hook_gate(req.signature, req.secret) = 0
                          /\ hook_calls(req.event, retrieved, now) # <<>>) :
    LET gate     == hook_gate(req.signature, req.secret)
        e        == req.event
        fetched  == IF gate = 0 /\ hook_retrieves(e)
                    THEN (IF retrieved THEN "ok" ELSE "failed") ELSE "none"
        calls    == IF gate = 0 THEN hook_calls(e, retrieved, now) ELSE <<>>
        failed   == calls # <<>> /\ error
        status   == IF gate # 0 THEN gate ELSE hook_status(e, failed)
    IN  /\ subscriptions' = Reconciled(subscriptions, calls, failed, now)
        /\ http' = [endpoint |-> "webhook", request |-> req, fetched |-> fetched,
                    calls |-> calls, failed |-> failed, status |-> status,
                    at |-> now]
        /\ last' = Done("webhook", "u1", "ok", NoResult)
        /\ UNCHANGED <<now, ticks, lastWrite, supplied, calc, proc, base, rounds, page>>

-----------------------------------------------------------------------------
(* The payment request handler *)

\* a request and what the provider answers to it: whether the caller is
\* authenticated, whether a price id is configured for the plan, whether the
\* provider calls return, and the status of the created payment intent
PaymentRequests ==
  [authenticated : BOOLEAN, planType : {"monthly"}, autoRenew : BOOLEAN,
   priced : BOOLEAN, provider : {"ok", "error"},
   pi_status : {"succeeded", "requires_action"}]

\* stripeCustomerId: the stored customer of the user's row, or a new customer
payment_customer(tbl, u) ==
  IF Cardinality(RowsOf(tbl, u)) = 1
       /\ tbl[SelectByUser(tbl, u)].stripe_customer_id # NullText
  THEN tbl[SelectByUser(tbl, u)].stripe_customer_id
  ELSE "cus_N"

\* the handler reaches the creation of the payment without an exception
payment_created(req) ==
  req.authenticated /\ req.priced /\ req.provider = "ok"

\* variant: the row is written as soon as the payment has been created
payment_calls_unconfirmed(req, tbl, u, v_now) ==
  IF payment_created(req)
  THEN <<[plan_type |-> req.planType, status |-> "active",
          stripe_subscription_id |-> IF req.autoRenew THEN "sub_N" ELSE NullText,
          stripe_customer_id |-> payment_customer(tbl, u),
          period_start |-> v_now, period_end |-> NullTs]>>
  ELSE <<>>

\* the rpc('handle_subscription_webhook', ...) calls of the handler
payment_calls(req, tbl, u, v_now) ==
  IF payment_created(req) /\ req.pi_status = "succeeded"
  THEN <<[plan_type |-> req.planType, status |-> "active",
          stripe_subscription_id |-> IF req.autoRenew THEN "sub_N" ELSE NullText,
          stripe_customer_id |-> payment_customer(tbl, u),
          period_start |-> v_now, period_end |-> NullTs]>>
  ELSE <<>>

\* dbError is logged; only an exception reaches the catch
payment_status(req, failed) == IF payment_created(req) THEN 200 ELSE 400

\* one POST to the payment handler, handled to its response
Payment(req) ==
  \E error \in Failures(payment_calls(req, subscriptions, "u1", now) # <<>>) :
    LET calls  == payment_calls(req, subscriptions, "u1", now)
        failed == calls # <<>> /\ error
    IN  /\ subscriptions' = Reconciled(subscriptions, calls, failed, now)
        /\ http' = [endpoint |-> "payment", request |-> req, fetched |-> "none",
                    calls |-> calls, failed |-> failed,
                    status |-> payment_status(req, failed), at |-> now]
        /\ last' = Done("payment", "u1", "ok", NoResult)
        /\ UNCHANGED <<now, ticks, lastWrite, supplied, calc, proc, base, rounds, page>>

\* a request to the create-payment function and what the provider answers:
\* the subscription is created with payment_behavior 'default_incomplete' and
\* the payment intent without confirm, so the payment intent it returns
\* still waits for the client's confirmation
CreatePaymentRequests ==
  [authenticated : BOOLEAN, planType : {"monthly"}, autoRenew : BOOLEAN,
   priced : BOOLEAN, provider : {"ok", "error"},
   pi_status : {"requires_payment_method"}]

\* create-payment reaches the creation of the payment without an exception:
\* the price id is looked at in the autoRenew branch only
create_payment_created(req) ==
  /\ req.authenticated
  /\ req.provider = "ok"
  /\ (req.autoRenew => req.priced)

\* create-payment contains no rpc call
create_payment_calls(req) == <<>>

create_payment_status(req) == IF create_payment_created(req) THEN 200 ELSE 400

\* one POST to the create-payment function, handled to its response
CreatePayment(req) ==
  LET calls == create_payment_calls(req)
  IN  /\ subscriptions' = Reconciled(subscriptions, calls, FALSE, now)
      /\ http' = [endpoint |-> "create-payment", request |-> req,
                  fetched |-> "none", calls |-> calls, failed |-> FALSE,
                  status |-> create_payment_status(req), at |-> now]
      /\ last' = Done("create-payment", "u1", "ok", NoResult)
      /\ UNCHANGED <<now, ticks, lastWrite, supplied, calc, proc, base, rounds, page>>

NextHook ==
  \/ \E req \in HookRequests : Webhook(req)
  \/ \E req \in PaymentRequests : Payment(req)
  \/ \E req \in CreatePaymentRequests : CreatePayment(req)
  \/ Tick

SpecHook == Init /\ [][NextHook]_vars

-----------------------------------------------------------------------------
(* The reactivate endpoint, next to the webhook deliveries that bring a row
   into each status and to the access status query *)

\* a request: whether the caller is authenticated and whether the provider
\* call returns
ReactivateRequests == [authenticated : BOOLEAN, provider : {"ok", "error"}]

\* variant: the period end is left to the stored procedure to check
reactivate_precondition_no_expiry(req, tbl, u, v_now) ==
  IF ~req.authenticated THEN "Unauthorized"
  ELSE IF Cardinality(RowsOf(tbl, u)) # 1 THEN "No subscription found"
  ELSE IF tbl[SelectByUser(tbl, u)].status # "cancelled"
       THEN "Subscription is not cancelled"
       ELSE "ok"

\* the error thrown before any provider call, or "ok"; .single() returns an
\* error unless exactly one row matches
reactivate_precondition(req, tbl, u, v_now) ==
  IF ~req.authenticated THEN "Unauthorized"
  ELSE IF Cardinality(RowsOf(tbl, u)) # 1 THEN "No subscription found"
  ELSE IF tbl[SelectByUser(tbl, u)].status # "cancelled"
       THEN "Subscription is not cancelled"
       ELSE IF tbl[SelectByUser(tbl, u)].current_period_end <= v_now
            THEN "Subscription has already expired"
            ELSE "ok"

\* the provider call made once the checks have passed
reactivate_provider_call(tbl, u) ==
  IF tbl[SelectByUser(tbl, u)].stripe_subscription_id # NullText
  THEN "subscriptions.update"
  ELSE IF tbl[SelectByUser(tbl, u)].stripe_customer_id # NullText
       THEN "customers.update"
       ELSE "none"

\* variant: the row is reactivated whether or not the provider call returned
reactivate_rpc_called_regardless(pre, provider, req) == pre = "ok"

\* rpc('reactivate_subscription') is reached: the checks have passed and the
\* awaited provider call, if one was made, did not throw
reactivate_rpc_called(pre, provider, req) ==
  pre = "ok" /\ ~(provider # "none" /\ req.provider = "error")

\* one POST to the reactivate function, handled to its response; the rpc
\* returns an error when reactivate_subscription raises or the call fails
ReactivateExchange(req, error) ==
  LET u        == "u1"
      pre      == reactivate_precondition(req, subscriptions, u, now)
      provider == IF pre = "ok"
                  THEN reactivate_provider_call(subscriptions, u) ELSE "none"
      called   == reactivate_rpc_called(pre, provider, req)
      failed   == called /\ (error \/ reactivate_outcome(subscriptions, u, now) # "ok")
  IN  /\ (~called => ~error)
      /\ subscriptions' = IF called /\ ~failed
                          THEN reactivate_subscription(subscriptions, u, now)
                          ELSE subscriptions
      /\ http' = [endpoint |-> "reactivate", request |-> req,
                  precondition |-> pre, provider |-> provider,
                  called |-> called, failed |-> failed,
                  status |-> IF called /\ ~failed THEN 200 ELSE 400,
                  at |-> now]

ReactivateEndpoint(req) ==
  \E error \in BOOLEAN :
    /\ ReactivateExchange(req, error)
    /\ last' = Done("reactivate-subscription", "u1", http'.precondition, NoResult)
    /\ UNCHANGED <<now, ticks, lastWrite, supplied, calc, proc, base, rounds, page>>

\* the deliveries that bring the row into each status
ApiEvents ==
  {Ev("checkout.session.completed"), Ev("payment_intent.succeeded"),
   Ev("invoice.payment_failed"), Ev("customer.subscription.deleted")}

ApiRequests == [signature : {"good"}, secret : {TRUE}, event : ApiEvents]

NextApi ==
  \/ \E req \in ApiRequests : Webhook(req)
  \/ \E req \in ReactivateRequests : ReactivateEndpoint(req)
  \/ \E u \in Users : Cancel(u)
  \/ \E u \in Users : GetAccessStatus(u)
  \/ Tick

SpecApi == Init /\ [][NextApi]_vars

-----------------------------------------------------------------------------
(* The billing page and SubscriptionService.checkSubscriptionAccess *)

\* what supabase.rpc('get_subscription_access_status') does: returns the
\* row of the function, returns an error, returns no rows, or throws
RpcOutcomes == {"ok", "error", "empty", "throws"}

\* the features are stood for by the tier they belong to
getFallbackAccess(v_now) ==
  [loaded |-> TRUE,
   hasAccess |-> TRUE,
   subscription |-> [present |-> FALSE],
   features |-> "trial",
   daysRemaining |-> 30,
   isExpired |-> FALSE,
   isCancelled |-> FALSE,
   billingPeriodText |->
     [status_prefix   |-> "",
      start_formatted |-> to_char(v_now),
      end_formatted   |-> to_char(v_now + Days(30)),
      duration_text   |-> <<"30 days">>]]

\* the SubscriptionAccessStatus built from data[0]
access_result(r) ==
  [loaded |-> TRUE,
   hasAccess |-> r.has_access,
   subscription |->
     [present |-> TRUE,
      id |-> r.subscription_id,
      plan_type |-> r.plan_type,
      status |-> r.status,
      stripe_subscription_id |-> r.stripe_subscription_id,
      stripe_customer_id |-> r.stripe_customer_id,
      current_period_start |-> r.current_period_start,
      current_period_end |-> r.current_period_end,
      created_at |-> r.created_at,
      updated_at |-> r.updated_at],
   features |-> r.plan_type,
   daysRemaining |-> r.days_remaining,
   isExpired |-> r.is_expired,
   isCancelled |-> r.is_cancelled,
   billingPeriodText |-> r.billing_period_text]

\* variant: an rpc error or exception is passed on to the caller
checkSubscriptionAccess_rethrows(rpc, r, v_now) ==
  [thrown |-> rpc \in {"error", "throws"},
   value  |-> IF rpc = "ok" THEN access_result(r) ELSE getFallbackAccess(v_now)]

\* r is the row the function returns when the rpc succeeds; thrown tells
\* whether the promise rejects
checkSubscriptionAccess(rpc, r, v_now) ==
  [thrown |-> FALSE,
   value  |-> IF rpc = "ok" THEN access_result(r) ELSE getFallbackAccess(v_now)]

\* loadBillingData, the list of payment methods left out
loadBillingData(pg, tbl, u, v_now, rpc) ==
  LET data == checkSubscriptionAccess(
                rpc, get_subscription_access_status(tbl, u, v_now), v_now)
  IN  IF data.thrown
      THEN [pg EXCEPT !.error = "Failed to load billing information"]
      ELSE [pg EXCEPT !.error = "", !.subscriptionData = data.value,
                      !.fetched_at = v_now]

\* the Reactivate Subscription button is rendered
show_reactivate(d) ==
  /\ d.loaded /\ d.subscription.present
  /\ d.isCancelled /\ ~d.isExpired

\* the Cancel Subscription button is rendered
show_cancel(d) ==
  /\ d.loaded /\ d.subscription.present
  /\ ~d.isCancelled /\ ~d.isExpired
  /\ d.subscription.plan_type # "trial"

\* variant: the loading flag is reset on the successful path only
cancel_effects_without_finally(ok) ==
  IF ok
  THEN <<"setCancelLoading(true)", "cancelSubscription", "loadBillingData",
         "setShowCancelModal(false)", "dispatch subscription-updated",
         "dispatch billing-updated", "setCancelLoading(false)">>
  ELSE <<"setCancelLoading(true)", "cancelSubscription", "setError">>

\* what handleCancelSubscription does, in order, past its first line; ok
\* tells whether SubscriptionService.cancelSubscription returned
cancel_effects(ok) ==
  IF ok
  THEN <<"setCancelLoading(true)", "cancelSubscription", "loadBillingData",
         "setShowCancelModal(false)", "dispatch subscription-updated",
         "dispatch billing-updated", "setCancelLoading(false)">>
  ELSE <<"setCancelLoading(true)", "cancelSubscription", "setError",
         "setCancelLoading(false)">>

\* what handleReactivateSubscription does, in order, past its first line; ok
\* tells whether the response of the reactivate function was ok
reactivate_effects(ok) ==
  IF ok
  THEN <<"setReactivateLoading(true)", "fetch", "loadBillingData",
         "setShowReactivateModal(false)", "setSelectedPaymentMethod('')",
         "dispatch subscription-updated", "dispatch billing-updated",
         "setReactivateLoading(false)">>
  ELSE <<"setReactivateLoading(true)", "fetch", "setError",
         "setReactivateLoading(false)">>

\* one effect on the state of the page; ctx holds what the awaited calls see
ApplyEffect(pg, e, ctx) ==
  CASE e = "setCancelLoading(true)"        -> [pg EXCEPT !.cancelLoading = TRUE]
    [] e = "setCancelLoading(false)"       -> [pg EXCEPT !.cancelLoading = FALSE]
    [] e = "setReactivateLoading(true)"    -> [pg EXCEPT !.reactivateLoading = TRUE]
    [] e = "setReactivateLoading(false)"   -> [pg EXCEPT !.reactivateLoading = FALSE]
    [] e = "setShowCancelModal(false)"     -> [pg EXCEPT !.showCancelModal = FALSE]
    [] e = "setShowReactivateModal(false)" -> [pg EXCEPT !.showReactivateModal = FALSE]
    [] e = "setSelectedPaymentMethod('')"  -> [pg EXCEPT !.selectedPaymentMethod = ""]
    [] e = "setError"                      -> [pg EXCEPT !.error = ctx.message]
    [] e = "loadBillingData"               ->
         loadBillingData(pg, ctx.tbl, ctx.u, ctx.v_now, ctx.rpc)
    [] OTHER                               -> pg

RECURSIVE RunEffects(_, _, _)
RunEffects(pg, effects, ctx) ==
  IF effects = <<>> THEN pg
  ELSE RunEffects(ApplyEffect(pg, Head(effects), ctx), Tail(effects), ctx)

\* subscriptionData?.subscription
HasSubscription(pg) ==
  pg.subscriptionData.loaded /\ pg.subscriptionData.subscription.present

\* the effect on mount and the refresh button
LoadBillingData(rpc) ==
  /\ page' = loadBillingData(page, subscriptions, "u1", now, rpc)
  /\ last' = Done("loadBillingData", "u1", rpc, NoResult)
  /\ UNCHANGED <<subscriptions, now, ticks, lastWrite, supplied, calc, proc,
                 base, rounds, http>>

OpenCancelModal ==
  /\ show_cancel(page.subscriptionData)
  /\ ~page.showCancelModal
  /\ page' = [page EXCEPT !.showCancelModal = TRUE]
  /\ last' = Done("setShowCancelModal(true)", "u1", "ok", NoResult)
  /\ UNCHANGED <<subscriptions, now, ticks, lastWrite, supplied, calc, proc,
                 base, rounds, http>>

OpenReactivateModal ==
  /\ show_reactivate(page.subscriptionData)
  /\ ~page.showReactivateModal
  /\ page' = [page EXCEPT !.showReactivateModal = TRUE]
  /\ last' = Done("setShowReactivateModal(true)", "u1", "ok", NoResult)
  /\ UNCHANGED <<subscriptions, now, ticks, lastWrite, supplied, calc, proc,
                 base, rounds, http>>

\* a payment method of the list is chosen in the reactivate modal
SelectPaymentMethod ==
  /\ page.showReactivateModal
  /\ page.selectedPaymentMethod = ""
  /\ page' = [page EXCEPT !.selectedPaymentMethod = "pm_1"]
  /\ last' = Done("setSelectedPaymentMethod", "u1", "ok", NoResult)
  /\ UNCHANGED <<subscriptions, now, ticks, lastWrite, supplied, calc, proc,
                 base, rounds, http>>

\* the confirm button of the cancel modal, disabled while cancelLoading
HandleCancelSubscription(rpc, error) ==
  /\ page.showCancelModal /\ ~page.cancelLoading
  /\ LET outcome == IF ~HasSubscription(page) THEN "return"
                    ELSE IF error THEN "Failed to cancel subscription"
                    ELSE cancel_outcome(subscriptions, "u1")
     IN  /\ (~HasSubscription(page) => ~error)
         /\ (outcome # "ok" => rpc = "ok")
         /\ subscriptions' = IF outcome = "ok"
                             THEN cancel_subscription_safe(subscriptions, "u1", now)
                             ELSE subscriptions
         /\ page' = IF outcome = "return"
                    THEN page
                    ELSE RunEffects(page, cancel_effects(outcome = "ok"),
                                    [tbl |-> subscriptions', u |-> "u1",
                                     v_now |-> now, rpc |-> rpc,
                                     message |-> outcome])
         /\ last' = Done("handleCancelSubscription", "u1", outcome,
                         [rpc |-> rpc,
                          trace |-> IF outcome = "return" THEN <<>>
                                    ELSE cancel_effects(outcome = "ok")])
         /\ lastWrite' = IF outcome = "ok"
                         THEN [lastWrite EXCEPT !["u1"] =
                                 [op |-> "cancel", args |-> NoArgs, repeat |-> FALSE]]
                         ELSE lastWrite
  /\ UNCHANGED <<now, ticks, supplied, calc, proc, base, rounds, http>>

\* the confirm button of the reactivate modal, disabled while
\* reactivateLoading or without a selected payment method
HandleReactivateSubscription(req, rpc, error) ==
  /\ page.showReactivateModal /\ ~page.reactivateLoading
  /\ page.selectedPaymentMethod # ""
  /\ IF ~HasSubscription(page)
     THEN /\ req = [authenticated |-> TRUE, provider |-> "ok"]
          /\ rpc = "ok" /\ ~error
          /\ page' = page
          /\ last' = Done("handleReactivateSubscription", "u1", "return",
                          [rpc |-> rpc, trace |-> <<>>])
          /\ UNCHANGED <<subscriptions, http>>
     ELSE /\ ReactivateExchange(req, error)
          /\ (http'.status # 200 => rpc = "ok")
          /\ page' = RunEffects(page, reactivate_effects(http'.status = 200),
                                [tbl |-> subscriptions', u |-> "u1",
                                 v_now |-> now, rpc |-> rpc,
                                 message |-> "Failed to reactivate subscription"])
          /\ last' = Done("handleReactivateSubscription", "u1",
                          IF http'.status = 200 THEN "ok" ELSE "failed",
                          [rpc |-> rpc,
                           trace |-> reactivate_effects(http'.status = 200)])
  /\ UNCHANGED <<now, ticks, lastWrite, supplied, calc, proc, base, rounds>>

\* the reconcile calls that bring the row into each status the page shows;
\* a session of the page is followed at one instant, so a row whose period
\* has ended comes from a call that reports a past period
PageCalls ==
  {CallArgs("trial", "active", <<NullText, NullText>>, <<NullTs, NullTs>>),
   CallArgs("monthly", "active", <<"sub_A", "cus_A">>, <<NullTs, NullTs>>),
   CallArgs("monthly", "past_due", <<NullText, NullText>>, <<NullTs, NullTs>>),
   CallArgs("monthly", "cancelled", <<NullText, NullText>>,
            <<T0 - Days(1), T0 + Days(7)>>),
   CallArgs("monthly", "cancelled", <<NullText, NullText>>,
            <<T0 - Days(14), T0 - Days(7)>>)}

NextPage ==
  \/ \E a \in PageCalls : Reconcile("u1", a)
  \/ \E rpc \in RpcOutcomes : LoadBillingData(rpc)
  \/ OpenCancelModal
  \/ OpenReactivateModal
  \/ SelectPaymentMethod
  \/ \E rpc \in RpcOutcomes : \E error \in BOOLEAN :
       HandleCancelSubscription(rpc, error)
  \/ \E req \in ReactivateRequests : \E rpc \in RpcOutcomes :
       \E error \in BOOLEAN : HandleReactivateSubscription(req, rpc, error)

SpecPage == Init /\ [][NextPage]_vars

-----------------------------------------------------------------------------
(* Properties *)

HasRow(u) == RowsOf(subscriptions, u) # {}

\* the row of user u that was created most recently
LatestRow(u) ==
  LET ids == RowsOf(subscriptions, u)
      i == CHOOSE k \in ids :
             \A j \in ids : subscriptions[j].created_at <= subscriptions[k].created_at
  IN  subscriptions[i]

AccessAnswered == last.op = "getAccessStatus"

\* C1: for an existing row, getAccessStatus answers from the user's most
\* recently created row with hasAccess = (status = active) or (status =
\* cancelled and periodEnd > now), isCancelled = (status = cancelled) and
\* isExpired = (periodEnd <= now).
Thm_C1 ==
  (AccessAnswered /\ HasRow(last.user)) =>
    LET r == LatestRow(last.user)
        res == last.result
    IN  /\ res.found
        /\ res.subscription_id = r.id
        /\ res.has_access =
             ((r.status = "active") \/
              (r.status = "cancelled" /\ r.current_period_end > now))
        /\ res.is_cancelled = (r.status = "cancelled")
        /\ res.is_expired = (r.current_period_end <= now)

Wit_C1 ==
  /\ AccessAnswered /\ HasRow(last.user)
  /\ LatestRow(last.user).status = "cancelled"
  /\ LatestRow(last.user).current_period_end > now
  /\ last.result.has_access
  /\ ticks > 0

\* C2 as stated: whenever getAccessStatus reports isExpired it reports
\* hasAccess = false, whatever the status.
Orig_C2 ==
  (AccessAnswered /\ HasRow(last.user) /\ last.result.is_expired) =>
    ~last.result.has_access

\* C2 amended: whenever getAccessStatus reports isExpired for a row whose
\* status is not active it reports hasAccess = false; for an expired row
\* whose status is active it reports hasAccess = true.
Thm_C2 ==
  (AccessAnswered /\ HasRow(last.user) /\ last.result.is_expired) =>
    (last.result.has_access = (last.result.status = "active"))

Wit_C2 ==
  /\ AccessAnswered /\ HasRow(last.user)
  /\ last.result.is_expired
  /\ last.result.status = "cancelled"
  /\ ~last.result.has_access

\* C3: once cancel has succeeded and nothing has written the row since,
\* getAccessStatus reports hasAccess and isCancelled at every instant before
\* periodEnd, and no access and isExpired at every instant at or after it.
Thm_C3 ==
  (AccessAnswered /\ lastWrite[last.user].op = "cancel") =>
    LET r == LatestRow(last.user)
        res == last.result
    IN  /\ (now < r.current_period_end) => (res.has_access /\ res.is_cancelled)
        /\ (now >= r.current_period_end) => (~res.has_access /\ res.is_expired)

Wit_C3 ==
  /\ AccessAnswered /\ lastWrite[last.user].op = "cancel"
  /\ now > LatestRow(last.user).updated_at
  /\ now < LatestRow(last.user).current_period_end
  /\ last.result.has_access

\* C4: for a user with no row getAccessStatus returns the synthetic trial
\* status (access, trial, active, periodStart = now, periodEnd = now + 30
\* days, 30 days remaining, neither expired nor cancelled) and creates no row.
Thm_C4 ==
  [][(last'.op = "getAccessStatus" /\ RowsOf(subscriptions, last'.user) = {}) =>
       /\ subscriptions' = subscriptions
       /\ last'.result.has_access = TRUE
       /\ last'.result.plan_type = "trial"
       /\ last'.result.status = "active"
       /\ last'.result.current_period_start = now'
       /\ last'.result.current_period_end = now' + 30 * TicksPerDay
       /\ last'.result.days_remaining = 30
       /\ last'.result.is_expired = FALSE
       /\ last'.result.is_cancelled = FALSE]_vars

Wit_C4 ==
  /\ AccessAnswered /\ ~HasRow(last.user)
  /\ ~last.result.found
  /\ ticks > 0

\* the row of user u in table tbl that was created most recently
LatestRowIn(tbl, u) ==
  LET ids == RowsOf(tbl, u)
      i == CHOOSE k \in ids : \A j \in ids : tbl[j].created_at <= tbl[k].created_at
  IN  tbl[i]

Thm_C6 ==
  [][(last'.op = "reactivate") =>
       LET u    == last'.user
           had  == RowsOf(subscriptions, u) # {}
           ok   == last'.outcome = "ok"
           pre  == LatestRowIn(subscriptions, u)
           post == LatestRowIn(subscriptions', u)
       IN  /\ ok = (had /\ pre.status = "cancelled" /\ pre.current_period_end > now)
           /\ ok => /\ post.status = "active"
                    /\ post.current_period_start = pre.current_period_start
                    /\ post.current_period_end = pre.current_period_end
                    /\ post.plan_type = pre.plan_type
                    /\ post.stripe_subscription_id = pre.stripe_subscription_id
                    /\ post.stripe_customer_id = pre.stripe_customer_id
           /\ (had /\ pre.status # "cancelled") =>
                last'.outcome = "Subscription is not cancelled"
           /\ (had /\ pre.status = "cancelled" /\ pre.current_period_end <= now) =>
                last'.outcome = "Subscription has already expired"
           /\ ~ok => subscriptions' = subscriptions]_vars

Wit_C6 ==
  /\ last.op = "reactivate" /\ last.outcome = "Subscription has already expired"
  /\ LatestRow(last.user).status = "cancelled"
  /\ LatestRow(last.user).current_period_end = now

\* a reconcile step for user u that repeats the arguments of the call before
RepeatedReconcile(u) ==
  /\ last'.op = "reconcile" /\ last'.user = u
  /\ lastWrite[u].op = "reconcile"
  /\ lastWrite'[u].args = lastWrite[u].args

Thm_C8 ==
  /\ [](\A u \in Users : HasRow(u) =>
          /\ LatestRow(u).stripe_subscription_id = supplied[u].stripe_subscription_id
          /\ LatestRow(u).stripe_customer_id = supplied[u].stripe_customer_id)
  /\ [][(last'.op = "reconcile" /\ RowsOf(subscriptions, last'.user) # {}) =>
          LET u    == last'.user
              a    == lastWrite'[u].args
              pre  == LatestRowIn(subscriptions, u)
              post == LatestRowIn(subscriptions', u)
          IN  /\ post.stripe_subscription_id =
                   (IF a.stripe_subscription_id = NullText
                    THEN pre.stripe_subscription_id ELSE a.stripe_subscription_id)
              /\ post.stripe_customer_id =
                   (IF a.stripe_customer_id = NullText
                    THEN pre.stripe_customer_id ELSE a.stripe_customer_id)]_vars

Wit_C8 ==
  /\ last.op = "reconcile"
  /\ lastWrite[last.user].args.stripe_subscription_id = "sub_B"
  /\ lastWrite[last.user].args.stripe_customer_id = NullText
  /\ LatestRow(last.user).stripe_subscription_id = "sub_B"
  /\ LatestRow(last.user).stripe_customer_id = "cus_A"

\* C9: after a reconcile call the row has the planTier and status of the
\* arguments, periodStart = the supplied periodStart or else now, periodEnd =
\* the supplied periodEnd or else calculatePeriodEnd(planTier, periodStart);
\* a following getAccessStatus reports these values.
Thm_C9 ==
  /\ (last.op = "reconcile") =>
       LET a == lastWrite[last.user].args
           r == LatestRow(last.user)
           start == IF a.period_start # NullTs THEN a.period_start ELSE now
       IN  /\ r.plan_type = a.plan_type
           /\ r.status = a.status
           /\ r.current_period_start = start
           /\ r.current_period_end =
                (IF a.period_end # NullTs THEN a.period_end
                 ELSE calculate_subscription_period_end(a.plan_type, start))
  /\ (AccessAnswered /\ lastWrite[last.user].op = "reconcile") =>
       LET a == lastWrite[last.user].args
           r == LatestRow(last.user)
           res == last.result
       IN  /\ res.plan_type = a.plan_type
           /\ res.status = a.status
           /\ res.current_period_start = r.current_period_start
           /\ res.current_period_end = r.current_period_end
           /\ a.period_start # NullTs => res.current_period_start = a.period_start
           /\ res.current_period_end =
                (IF a.period_end # NullTs THEN a.period_end
                 ELSE calculate_subscription_period_end(a.plan_type,
                                                        res.current_period_start))

Wit_C9 ==
  /\ AccessAnswered /\ lastWrite[last.user].op = "reconcile"
  /\ lastWrite[last.user].args.period_start = NullTs
  /\ lastWrite[last.user].args.period_end = NullTs
  /\ LatestRow(last.user).created_at < LatestRow(last.user).updated_at
  /\ LatestRow(last.user).updated_at < now
  /\ last.result.current_period_start = LatestRow(last.user).updated_at

\* the civil date ce is n calendar months after the civil date cs, the day of
\* month kept, or the last day of the month when the month is too short
MonthsAfter(cs, ce, n) ==
  /\ ce.y * 12 + ce.m = cs.y * 12 + cs.m + n
  /\ ce.d = Min(cs.d, DaysInMonth(ce.y, ce.m))

\* C10: calculatePeriodEnd returns periodStart + 30 days for trial, + 1
\* calendar month for monthly, + 6 calendar months for semiannual, + 1
\* calendar year for annual and + 30 days for any other tier, and the result
\* is strictly later than periodStart.
Thm_C10 ==
  (calc.plan_type # NullText) =>
    LET t  == calc.period_start
        e  == calc.period_end
        cs == CivilFromDays(t \div TicksPerDay)
        ce == CivilFromDays(e \div TicksPerDay)
        sameTime == (e % TicksPerDay) = (t % TicksPerDay)
    IN  /\ e > t
        /\ calc.plan_type = "trial" => e - t = 30 * TicksPerDay
        /\ calc.plan_type = "monthly" => (MonthsAfter(cs, ce, 1) /\ sameTime)
        /\ calc.plan_type = "semiannual" => (MonthsAfter(cs, ce, 6) /\ sameTime)
        /\ calc.plan_type = "annual" =>
             /\ ce.y = cs.y + 1 /\ ce.m = cs.m
             /\ ce.d = Min(cs.d, DaysInMonth(ce.y, ce.m))
             /\ sameTime
        /\ calc.plan_type \notin PlanTiers => e - t = 30 * TicksPerDay

Wit_C10 ==
  /\ calc.plan_type = "monthly"
  /\ CivilFromDays(calc.period_start \div TicksPerDay) = [y |-> 2024, m |-> 1, d |-> 31]
  /\ CivilFromDays(calc.period_end \div TicksPerDay) = [y |-> 2024, m |-> 2, d |-> 29]

\* C11 as stated: in every reachable state every subscription row has
\* periodEnd > periodStart, after any sequence of reconcile calls, cancel,
\* reactivate and fix_existing_billing_periods.
Orig_C11 ==
  \A i \in 1 .. Len(subscriptions) :
     subscriptions[i].current_period_end > subscriptions[i].current_period_start

Abs(x) == IF x >= 0 THEN x ELSE 0 - x

\* C12: in every reachable state each row's stored billingPeriodAccurate
\* equals (|wholeDays(periodEnd - periodStart) - wholeDays(calculatePeriodEnd(
\* planTier, periodStart) - periodStart)| <= 2) for the row's current
\* periodStart, periodEnd and planTier.
Thm_C12 ==
  \A i \in 1 .. Len(subscriptions) :
     LET r == subscriptions[i]
         actual == ExtractDays(r.current_period_end - r.current_period_start)
         expected ==
           ExtractDays(calculate_subscription_period_end(r.plan_type,
                          r.current_period_start) - r.current_period_start)
     IN  r.billing_period_accurate = (Abs(actual - expected) <= 2)

\* a row whose period differs from the calculated one by more than two days
\* has been rewritten by cancel and is still stored as inaccurate
Wit_C12 ==
  /\ last.op = "cancel" /\ last.outcome = "ok"
  /\ ~LatestRow(last.user).billing_period_accurate
  /\ LatestRow(last.user).current_period_end =
       LatestRow(last.user).current_period_start + Days(6)

RaceDone == \A p \in Procs : proc[p].pc = "done"

BothRun(op1, op2) ==
  \/ proc["p1"].op = op1 /\ proc["p2"].op = op2
  \/ proc["p1"].op = op2 /\ proc["p2"].op = op1

\* C13 as stated: of two concurrent cancel calls, two concurrent reactivate
\* calls, or a cancel and a reconcile on the same user's row, it never
\* happens that both have passed their check and neither has yet written;
\* and of two concurrent cancel calls on an active subscription exactly one
\* succeeds and the other fails with the not-active error.
Orig_C13 ==
  /\ (BothRun("cancel", "cancel") \/ BothRun("reactivate", "reactivate")
        \/ BothRun("cancel", "reconcile"))
       => ~(\A p \in Procs : proc[p].pc = "write")
  /\ (RaceDone /\ BothRun("cancel", "cancel")
        /\ RowsOf(base, ConcUser) # {}
        /\ LatestRowIn(base, ConcUser).status = "active")
       => \E p \in Procs : \E q \in Procs \ {p} :
             /\ proc[p].outcome = "ok"
             /\ proc[q].outcome = "Subscription is not active"

\* the table left by running the call of session p and then that of session q
\* one after the other, from the table the two calls started with
Serial(p, q) ==
  handle_subscription_webhook(
    handle_subscription_webhook(base, ConcUser, proc[p].args, now),
    ConcUser, proc[q].args, now)

\* C14 as stated: when two concurrent reconcile calls for the same user have
\* both returned, the user has exactly one row and its fields are those left
\* by running the two calls in one of the two serial orders.
Orig_C14 ==
  (RaceDone /\ BothRun("reconcile", "reconcile") /\ Len(base) <= 1) =>
     /\ Cardinality(RowsOf(subscriptions, ConcUser)) = 1
     /\ subscriptions \in {Serial("p1", "p2"), Serial("p2", "p1")}

HookAnswered == http.endpoint = "webhook"

\* the exchange h is a webhook request whose event was constructed
Constructed(h) ==
  h.endpoint = "webhook" /\ h.request.signature = "good" /\ h.request.secret

InvoiceTypes == {"invoice.payment_succeeded", "invoice.payment_failed"}

SubscriptionTypes ==
  {"customer.subscription.updated", "customer.subscription.deleted"}

NowAnchoredTypes == {"checkout.session.completed", "payment_intent.succeeded"}

\* the exchange h handled a recognised event that carries the identifying
\* metadata its type requires
CarriesMetadata(h) ==
  LET e == h.request.event
  IN  \/ /\ e.type = "checkout.session.completed"
         /\ e.user_id # NullText /\ e.plan_type # NullText
         /\ e.payment_status = "paid"
      \/ /\ e.type = "payment_intent.succeeded"
         /\ e.user_id # NullText /\ e.plan_type # NullText
      \/ /\ e.type \in InvoiceTypes
         /\ e.subscription # NullText /\ h.fetched = "ok"
         /\ e.user_id # NullText
      \/ /\ e.type \in SubscriptionTypes
         /\ e.user_id # NullText

LacksMetadata(h) ==
  LET e == h.request.event
  IN  \/ e.type \notin NowAnchoredTypes \cup InvoiceTypes \cup SubscriptionTypes
      \/ e.user_id = NullText
      \/ /\ e.type = "checkout.session.completed"
         /\ (e.plan_type = NullText \/ e.payment_status # "paid")
      \/ /\ e.type \in InvoiceTypes
         /\ e.subscription = NullText

\* C16: a verified webhook event of an unknown type, or lacking the required
\* identifying metadata, makes no reconcile call, leaves every subscription
\* row unchanged and is answered with 200.
Thm_C16 ==
  [][(last'.op = "webhook" /\ Constructed(http') /\ LacksMetadata(http')) =>
       /\ http'.calls = <<>>
       /\ subscriptions' = subscriptions
       /\ http'.status = 200]_vars

Wit_C16 ==
  /\ last.op = "webhook" /\ Constructed(http)
  /\ http.request.event.type = "checkout.session.completed"
  /\ http.request.event.payment_status = "unpaid"
  /\ http.status = 200
  /\ HasRow("u1") /\ LatestRow("u1").updated_at < now

\* C17: a webhook request whose signature header is missing or does not
\* verify makes no reconcile call and changes no subscription row; it is
\* answered with 400 when the header is missing or when it fails
\* verification against the configured secret.
Thm_C17 ==
  [][(last'.op = "webhook" /\ http'.request.signature # "good") =>
       /\ http'.calls = <<>>
       /\ subscriptions' = subscriptions
       /\ (http'.request.signature = "missing" \/ http'.request.secret)
            => http'.status = 400]_vars

Wit_C17 ==
  /\ last.op = "webhook"
  /\ http.request.signature = "bad" /\ http.request.secret
  /\ http.request.event.type = "customer.subscription.deleted"
  /\ http.status = 400
  /\ HasRow("u1") /\ LatestRow("u1").status = "active"

\* C18 as stated: whenever the verification secret is unconfigured the
\* webhook request is answered with 500, with or without a signature header.
Orig_C18 ==
  (HookAnswered /\ ~http.request.secret) => http.status = 500

\* C18 amended: whenever the verification secret is unconfigured a webhook
\* request that carries a signature header is answered with 500, and one
\* without a signature header is answered with 400.
Thm_C18 ==
  (HookAnswered /\ ~http.request.secret) =>
     http.status = (IF http.request.signature = "missing" THEN 400 ELSE 500)

Wit_C18 ==
  /\ HookAnswered /\ ~http.request.secret
  /\ http.request.signature = "good"
  /\ http.status = 500
  /\ http.calls = <<>>

\* C19 as stated: whenever a reconcile call made while handling a webhook
\* event or a payment request returns an error, the response is 400.
Orig_C19 ==
  (http.endpoint \in {"webhook", "payment"} /\ http.failed) => http.status = 400

\* the fields of a row that a redelivery must leave as they are
Core(r) ==
  [plan_type |-> r.plan_type, status |-> r.status,
   stripe_subscription_id |-> r.stripe_subscription_id,
   stripe_customer_id |-> r.stripe_customer_id,
   current_period_start |-> r.current_period_start,
   current_period_end |-> r.current_period_end]

\* the exchange h is a webhook event that was reconciled into the row
Delivered(h) ==
  h.endpoint = "webhook" /\ h.status = 200 /\ h.calls # <<>> /\ ~h.failed

\* C20 as stated: delivering the same handled event a second time at a later
\* instant leaves planTier, status, the provider identifiers, periodStart and
\* periodEnd of the user's row as the first delivery left them.
Orig_C20 ==
  [][(/\ last'.op = "webhook"
      /\ Delivered(http) /\ Delivered(http')
      /\ http'.request = http.request
      /\ http'.at > http.at) =>
       Core(LatestRowIn(subscriptions', "u1")) =
         Core(LatestRowIn(subscriptions, "u1"))]_vars

\* C21: once the webhook has reconciled a customer.subscription.deleted
\* event that carries the user id (the reconcile call it makes returned
\* without error), whatever the user's row was before (none, active,
\* past_due, cancelled), getAccessStatus of that user reports status =
\* cancelled and isCancelled = true.
Thm_C21 ==
  (/\ AccessAnswered
   /\ Delivered(http)
   /\ http.request.event.type = "customer.subscription.deleted") =>
     /\ last.result.found
     /\ last.result.status = "cancelled"
     /\ last.result.is_cancelled = TRUE

Wit_C21 ==
  /\ AccessAnswered
  /\ Delivered(http)
  /\ http.request.event.type = "customer.subscription.deleted"
  /\ LatestRow("u1").created_at < http.at
  /\ http.at < now
  /\ last.result.is_cancelled

\* the exchange h is a request to one of the two payment handlers
PaymentAnswered(h) == h.endpoint \in {"payment", "create-payment"}

\* C22 as stated: a payment request that is unauthenticated, or whose plan
\* tier has no configured price, or for which the provider calls fail, is
\* answered with 400, with autoRenew true and with autoRenew false.
Orig_C22 ==
  (/\ PaymentAnswered(http)
   /\ \/ ~http.request.authenticated
      \/ ~http.request.priced
      \/ http.request.provider = "error") =>
     http.status = 400

\* C23: a payment request handler makes a reconcile call if and only if the
\* payment was created and the provider reports it as succeeded; the call
\* passes status active, periodStart = now and no periodEnd, so that the
\* stored periodEnd is the calculated one; a request whose payment is not
\* reported as succeeded leaves every subscription row unchanged.
Thm_C23 ==
  /\ [](PaymentAnswered(http) =>
          LET succeeded == /\ http.status = 200
                           /\ http.request.pi_status = "succeeded"
          IN  /\ (http.calls # <<>>) <=> succeeded
              /\ succeeded =>
                   /\ Len(http.calls) = 1
                   /\ http.calls[1].status = "active"
                   /\ http.calls[1].plan_type = http.request.planType
                   /\ http.calls[1].period_start = http.at
                   /\ http.calls[1].period_end = NullTs
                   /\ ~http.failed =>
                        /\ LatestRow("u1").status = "active"
                        /\ LatestRow("u1").current_period_start = http.at
                        /\ LatestRow("u1").current_period_end =
                             calculate_subscription_period_end(
                               http.request.planType, http.at))
  /\ [][(/\ last'.op \in {"payment", "create-payment"}
         /\ ~(http'.status = 200 /\ http'.request.pi_status = "succeeded")) =>
          subscriptions' = subscriptions]_vars

Wit_C23 ==
  /\ last.op = "payment"
  /\ http.status = 200
  /\ http.request.pi_status = "requires_action"
  /\ http.calls = <<>>
  /\ HasRow("u1")
  /\ LatestRow("u1").status = "past_due"
  /\ LatestRow("u1").updated_at < http.at

\* C24: a request to the reactivate endpoint whose caller is
\* unauthenticated, or has no subscription row, or has a row whose status is
\* not cancelled, or whose periodEnd <= now, is answered with 400, makes no
\* provider call and leaves every subscription row unchanged.
Thm_C24 ==
  [][(/\ last'.op = "reactivate-subscription"
      /\ \/ ~http'.request.authenticated
         \/ ~HasRow("u1")
         \/ LatestRow("u1").status # "cancelled"
         \/ LatestRow("u1").current_period_end <= now) =>
       /\ http'.status = 400
       /\ http'.provider = "none"
       /\ ~http'.called
       /\ subscriptions' = subscriptions]_vars

Wit_C24 ==
  /\ last.op = "reactivate-subscription"
  /\ http.request.authenticated
  /\ HasRow("u1")
  /\ LatestRow("u1").status = "cancelled"
  /\ LatestRow("u1").current_period_end <= http.at
  /\ http.status = 400
  /\ http.provider = "none"

\* C25: no operation removes a subscription row and no sequence of
\* reconcile, cancel, reactivate and fix calls gives a user a second row: a
\* user has at most one row, a row once there stays, and the row
\* getAccessStatus resolves (latest by creation time) is the row the writers
\* update (the rows WHERE user_id = the user).
Thm_C25 ==
  /\ [](\A u \in Users :
          /\ Cardinality(RowsOf(subscriptions, u)) <= 1
          /\ HasRow(u) =>
               RowsOf(subscriptions, u) = {SelectLatest(subscriptions, u)})
  /\ [][/\ Len(subscriptions') >= Len(subscriptions)
        /\ \A u \in Users :
             /\ RowsOf(subscriptions, u) \subseteq RowsOf(subscriptions', u)
             /\ HasRow(u) =>
                  /\ Cardinality(RowsOf(subscriptions', u)) = 1
                  /\ LatestRowIn(subscriptions', u).id =
                       LatestRowIn(subscriptions, u).id
                  /\ LatestRowIn(subscriptions', u).created_at =
                       LatestRowIn(subscriptions, u).created_at]_vars

Wit_C25 ==
  /\ last.op = "reactivate" /\ last.outcome = "ok"
  /\ Cardinality(RowsOf(subscriptions, "u1")) = 1
  /\ LatestRow("u1").created_at < LatestRow("u1").updated_at
  /\ LatestRow("u1").status = "active"

\* C26: a call of getAccessStatus, for a user with or without a row, leaves
\* the table of subscription rows as it was, updatedAt and the derived
\* fields included.
Thm_C26 ==
  [][last'.op = "getAccessStatus" => subscriptions' = subscriptions]_vars

Wit_C26 ==
  /\ AccessAnswered
  /\ last.result.found
  /\ last.result.is_expired
  /\ LatestRow("u1").updated_at < now
  /\ LatestRow("u1").billing_period_text.status_prefix = ""

\* C27: for a verified customer.subscription.updated event that carries the
\* user id, the one reconcile call passes past_due when the provider status
\* is past_due (also when cancel_at_period_end is set), otherwise cancelled
\* when cancel_at_period_end is set or the provider status is canceled,
\* otherwise active; it passes the provider-reported current period.
Thm_C27 ==
  (/\ Constructed(http)
   /\ http.request.event.type = "customer.subscription.updated"
   /\ http.request.event.user_id # NullText) =>
     LET e == http.request.event
         a == http.calls[1]
     IN  /\ Len(http.calls) = 1
         /\ e.sub_status = "past_due" => a.status = "past_due"
         /\ (e.sub_status # "past_due"
               /\ (e.cancel_at_period_end \/ e.sub_status = "canceled"))
              => a.status = "cancelled"
         /\ (e.sub_status \notin {"past_due", "canceled"}
               /\ ~e.cancel_at_period_end)
              => a.status = "active"
         /\ a.period_start = e.current_period_start
         /\ a.period_end = e.current_period_end

Wit_C27 ==
  /\ Constructed(http)
  /\ http.request.event.type = "customer.subscription.updated"
  /\ http.request.event.sub_status = "past_due"
  /\ http.request.event.cancel_at_period_end
  /\ ~http.failed
  /\ LatestRow("u1").status = "past_due"
  /\ LatestRow("u1").current_period_end = ProviderPeriodEnd

\* C28: the daysRemaining that getAccessStatus returns is
\* max(0, floor((periodEnd - now) in days)): it is never negative and it is
\* 0 whenever isExpired is true.
Thm_C28 ==
  AccessAnswered =>
    LET r == last.result
    IN  /\ r.days_remaining =
             Max(0, (r.current_period_end - now) \div TicksPerDay)
        /\ r.days_remaining >= 0
        /\ r.is_expired => r.days_remaining = 0

Wit_C28 ==
  /\ AccessAnswered
  /\ last.result.found
  /\ last.result.is_expired
  /\ last.result.current_period_end + Days(1) < now
  /\ (now - last.result.current_period_end) % TicksPerDay # 0
  /\ last.result.days_remaining = 0

\* C29 as stated: the billingPeriodText that getAccessStatus returns for an
\* existing row is the Formatter's text for the row's periodStart, periodEnd
\* and planTier: prefixed "Expired: " exactly when periodEnd <= now, with the
\* Formatter's duration phrase for the tier.
Orig_C29 ==
  (AccessAnswered /\ last.result.found) =>
    last.result.billing_period_text =
      generate_billing_period_text(last.result.current_period_start,
                                   last.result.current_period_end,
                                   last.result.plan_type, now)

\* C30 as stated: in every reachable state, the states reached by time
\* passing after the last write included, the stored billingPeriodText of a
\* row starts with "Expired: " if and only if the row's periodEnd <= now.
Orig_C30 ==
  \A i \in 1 .. Len(subscriptions) :
    (subscriptions[i].billing_period_text.status_prefix = "Expired: ")
      <=> (subscriptions[i].current_period_end <= now)

Thm_C33 ==
  /\ [][(last'.op \in {"cancel", "reactivate"} /\ ~HasRow(last'.user)) =>
          /\ last'.outcome = "No subscription found for user"
          /\ subscriptions' = subscriptions
          /\ get_subscription_access_status(
               subscriptions', last'.user, now').status = "active"
          /\ get_subscription_access_status(
               subscriptions', last'.user, now').has_access]_vars
  /\ []((AccessAnswered /\ ~HasRow(last.user)) =>
          /\ ~last.result.found
          /\ last.result.status = "active"
          /\ last.result.has_access)

Wit_C33 ==
  /\ last.op = "cancel"
  /\ last.outcome = "No subscription found for user"
  /\ ~HasRow(last.user)
  /\ ticks > 0

\* C34 as stated: in every access status the page displays, the Cancel
\* Subscription button is shown only if the fetched status is active, and
\* the Reactivate Subscription button only if the fetched status is
\* cancelled and periodEnd is after the instant of the fetch.
Orig_C34 ==
  LET d == page.subscriptionData
  IN  /\ show_cancel(d) => d.subscription.status = "active"
      /\ show_reactivate(d) =>
           /\ d.subscription.status = "cancelled"
           /\ d.subscription.current_period_end > page.fetched_at

\* C35: checkSubscriptionAccess never throws; when the rpc returns an error,
\* returns no rows or throws, the page receives hasAccess = true,
\* subscription = null, the trial features, daysRemaining = 30, isExpired =
\* false and isCancelled = false whatever the stored row is; otherwise it
\* receives hasAccess, isExpired, isCancelled and daysRemaining as
\* get_subscription_access_status returns them.
Thm_C35 ==
  [][last'.op = "loadBillingData" =>
       LET d == page'.subscriptionData
           r == get_subscription_access_status(subscriptions, "u1", now)
       IN  /\ page'.error = ""
           /\ d.loaded /\ page'.fetched_at = now
           /\ last'.outcome # "ok" =>
                /\ d.hasAccess = TRUE
                /\ ~d.subscription.present
                /\ d.features = "trial"
                /\ d.daysRemaining = 30
                /\ d.isExpired = FALSE
                /\ d.isCancelled = FALSE
           /\ last'.outcome = "ok" =>
                /\ d.subscription.present
                /\ d.hasAccess = r.has_access
                /\ d.isExpired = r.is_expired
                /\ d.isCancelled = r.is_cancelled
                /\ d.daysRemaining = r.days_remaining]_vars

Wit_C35 ==
  /\ last.op = "loadBillingData"
  /\ last.outcome = "error"
  /\ HasRow("u1")
  /\ LatestRow("u1").status = "cancelled"
  /\ LatestRow("u1").current_period_end <= now
  /\ page.subscriptionData.hasAccess
  /\ ~page.subscriptionData.subscription.present
  /\ page.showReactivateModal

\* position of the first occurrence of effect e in the trace t, 0 if none
Position(t, e) ==
  IF \E i \in 1 .. Len(t) : t[i] = e
  THEN CHOOSE i \in 1 .. Len(t) : t[i] = e /\ \A j \in 1 .. (i - 1) : t[j] # e
  ELSE 0

Dispatched(t) ==
  \E i \in 1 .. Len(t) :
    t[i] \in {"dispatch subscription-updated", "dispatch billing-updated"}

\* C36: every run of handleCancelSubscription and of
\* handleReactivateSubscription ends with cancelLoading and
\* reactivateLoading false; when the operation succeeded the handler's modal
\* is closed and the billing data were fetched again before it closed; when
\* it failed the modal is still open, the error message is set and neither
\* subscription-updated nor billing-updated was dispatched.
Thm_C36 ==
  [][last'.op \in {"handleCancelSubscription", "handleReactivateSubscription"} =>
       LET cancelling == last'.op = "handleCancelSubscription"
           t      == last'.result.trace
           close  == IF cancelling THEN "setShowCancelModal(false)"
                     ELSE "setShowReactivateModal(false)"
           open   == IF cancelling THEN page'.showCancelModal
                     ELSE page'.showReactivateModal
       IN  /\ ~page'.cancelLoading
           /\ ~page'.reactivateLoading
           /\ last'.outcome = "ok" =>
                /\ ~open
                /\ Position(t, "loadBillingData") > 0
                /\ Position(t, "loadBillingData") < Position(t, close)
                /\ page'.fetched_at = now
                /\ Dispatched(t)
           /\ last'.outcome \notin {"ok", "return"} =>
                /\ open
                /\ page'.error # ""
                /\ ~Dispatched(t)
                /\ page'.subscriptionData = page.subscriptionData]_vars

Wit_C36 ==
  /\ last.op = "handleCancelSubscription"
  /\ last.outcome = "Subscription is not active"
  /\ page.showCancelModal
  /\ ~page.cancelLoading
  /\ page.error = "Subscription is not active"
  /\ LatestRow("u1").status = "past_due"

====
